---- MODULE Spec2Model ----
(***************************************************************************)
(* A model of pyvodb/tables.py: the ordered child collections of Event and *)
(* Talk (sqlalchemy.ext.orderinglist), the association proxy Talk.speakers,*)
(* the uniqueness constraints of the events, event_links and talk_links    *)
(* tables, and the derived accessors slugify, Event.title, Event.start and *)
(* Talk.youtube_id.                                                        *)
(*                                                                         *)
(* Python's None is the empty tuple and a present value x is <<x>>.        *)
(* A Python str is a tuple of characters; an ASCII character is a         *)
(* one-character string and a non-ASCII character is its code point,      *)
(* written "U+2013".                                                      *)
(***************************************************************************)
EXTENDS Integers, Sequences, FiniteSets, TLC

VARIABLES
    owner,      \* which relationship the collection under study is
    items,      \* the collection: the parent's list of member objects
    recs,       \* the member objects' fields: index, speaker
    nobjs,      \* number of member objects constructed so far
    hist,       \* history: how the collection was built since it was last empty
    last,       \* history: the last operation applied
    events,     \* the rows of table events, in id order
    event_links, \* the rows of table event_links
    talk_links, \* the rows of table talk_links
    db_last,    \* history: the last statement sent to the store and its outcome
    event,      \* one Event object's columns
    links,      \* one Talk's links: the url of each TalkLink, in order
    name,       \* the argument of slugify
    slug        \* the result of slugify(name), once computed

collVars == <<owner, items, recs, nobjs, hist, last>>
eventsVars == <<events, db_last>>
linkVars == <<event_links, talk_links, db_last>>
dbVars == <<events, event_links, talk_links, db_last>>
slugVars == <<name, slug>>
vars == <<owner, items, recs, nobjs, hist, last, events, event_links,
          talk_links, db_last, event, links, name, slug>>

\* What the operations of each part of the model leave alone
notColl == <<dbVars, event, links, slugVars>>
notEvents == <<collVars, event_links, talk_links, event, links, slugVars>>
notLinkRows == <<collVars, events, event, links, slugVars>>
notEvent == <<collVars, dbVars, links, slugVars>>
notLinks == <<collVars, dbVars, event, slugVars>>
notSlug == <<collVars, dbVars, event, links>>

None == <<>>
Some(x) == <<x>>

\* ------------------------------------------------------------------ bounds
MaxObjs == 3

Objs == 1..MaxObjs
Speakers == {"s1", "s2"}

\* ------------------------------------------------ ordered child collections
\* The four collections that carry an order index column.
Owners == {"Event.talks", "Event.links", "Talk.talk_speakers", "Talk.links"}

\* Event.talks, Talk.talk_speakers and Talk.links are declared with
\* collection_class=ordering_list('index'); Event.links is the backref of
\* EventLink.event, declared with no collection class: a plain list.
collection_class(o) ==
    IF o = "Event.links" THEN "list" ELSE "ordering_list"

\* A list numbered from 1, as ordering_list('index', count_from=1) would be
ordering_func_from_1(pos) == pos + 1

\* ordering_list('index') is called with its defaults: count_from 0 (the
\* ordering function is the position itself) and reorder_on_append False.
ordering_func(pos) == pos
reorder_on_append == FALSE

\* OrderingList._order_entity: an entity that already has an order value is
\* left alone unless reorder is set.
order_entity(rs, pos, o, reorder) ==
    IF rs[o].index # None /\ ~reorder
    THEN rs
    ELSE [rs EXCEPT ![o].index = Some(ordering_func(pos))]

\* OrderingList.reorder: sweep the list, numbering every entity.
RECURSIVE reorder_from(_, _, _)
reorder_from(its, rs, k) ==
    IF k > Len(its) THEN rs
    ELSE reorder_from(its, order_entity(rs, k - 1, its[k], TRUE), k + 1)

reorder(its, rs) == reorder_from(its, rs, 1)

\* list.insert(i, o), list.remove(o), list.pop(i) of Python, 0-based i.
list_insert(its, i, o) ==
    SubSeq(its, 1, i) \o <<o>> \o SubSeq(its, i + 1, Len(its))

list_pop(its, i) ==
    SubSeq(its, 1, i) \o SubSeq(its, i + 2, Len(its))

PosOf(its, o) == CHOOSE k \in 1..Len(its) : its[k] = o

list_remove(its, o) == list_pop(its, PosOf(its, o) - 1)

\* collection.append(o)
coll_append(cls, its, rs, o) ==
    LET its2 == Append(its, o) IN
    [items |-> its2,
     recs  |-> IF cls = "ordering_list"
               THEN order_entity(rs, Len(its2) - 1, o, reorder_on_append)
               ELSE rs]

\* collection.insert(i, o)
coll_insert(cls, its, rs, i, o) ==
    LET its2 == list_insert(its, i, o) IN
    [items |-> its2,
     recs  |-> IF cls = "ordering_list" THEN reorder(its2, rs) ELSE rs]

\* collection.remove(o)
coll_remove(cls, its, rs, o) ==
    LET its2 == list_remove(its, o) IN
    [items |-> its2,
     recs  |-> IF cls = "ordering_list" THEN reorder(its2, rs) ELSE rs]

\* collection.pop(i)
coll_pop(cls, its, rs, i) ==
    LET its2 == list_pop(its, i) IN
    [items |-> its2,
     recs  |-> IF cls = "ordering_list" THEN reorder(its2, rs) ELSE rs]

\* A creator that drops its argument: lambda s: TalkSpeaker()
TalkSpeaker_creator_no_speaker(s) == [index |-> None, speaker |-> None]

\* The association proxy's creator: lambda s: TalkSpeaker(speaker=s)
TalkSpeaker_creator(s) == [index |-> None, speaker |-> Some(s)]

Blank == [index |-> None, speaker |-> None]

InItems(o) == \E k \in 1..Len(items) : items[k] = o

\* history kept beside the program's state
HistAfterAppend(o) ==
    IF items = <<>>
    THEN [appendsOnly |-> TRUE, unsetOnly |-> recs[o].index = None]
    ELSE [appendsOnly |-> hist.appendsOnly,
          unsetOnly   |-> hist.unsetOnly /\ recs[o].index = None]

HistAfterOther == [appendsOnly |-> FALSE, unsetOnly |-> FALSE]

CollInit ==
    /\ owner \in Owners
    /\ items = <<>>
    /\ recs = [o \in Objs |-> Blank]
    /\ nobjs = 0
    /\ hist = [appendsOnly |-> TRUE, unsetOnly |-> TRUE]
    /\ last = [op |-> "init", obj |-> 0, arg |-> None]

\* A member object is constructed, detached, its index unset: Talk(...),
\* EventLink(...), TalkLink(...), TalkSpeaker(speaker=s).
Create(s) ==
    /\ nobjs < MaxObjs
    /\ nobjs' = nobjs + 1
    /\ recs' = [recs EXCEPT ![nobjs + 1] =
                  IF owner = "Talk.talk_speakers" THEN TalkSpeaker_creator(s)
                  ELSE Blank]
    /\ last' = [op |-> "create", obj |-> nobjs + 1, arg |-> None]
    /\ UNCHANGED <<owner, items, hist>>
    /\ UNCHANGED notColl

\* parent.collection.append(o), o a detached member
DoAppend(o) ==
    /\ o \in 1..nobjs /\ ~InItems(o)
    /\ LET r == coll_append(collection_class(owner), items, recs, o) IN
         /\ items' = r.items
         /\ recs' = r.recs
    /\ hist' = HistAfterAppend(o)
    /\ last' = [op |-> "append", obj |-> o, arg |-> None]
    /\ UNCHANGED <<owner, nobjs>>
    /\ UNCHANGED notColl

\* talk.speakers.append(s): the proxy wraps s in a new TalkSpeaker and
\* appends that to talk.talk_speakers.
SpeakersAppend(s) ==
    /\ owner = "Talk.talk_speakers"
    /\ nobjs < MaxObjs
    /\ LET o == nobjs + 1
           made == [recs EXCEPT ![o] = TalkSpeaker_creator(s)]
           r == coll_append(collection_class(owner), items, made, o) IN
         /\ nobjs' = o
         /\ items' = r.items
         /\ recs' = r.recs
         /\ hist' = [appendsOnly |-> items = <<>> \/ hist.appendsOnly,
                     unsetOnly   |-> items = <<>> \/ hist.unsetOnly]
         /\ last' = [op |-> "speakers.append", obj |-> o, arg |-> Some(s)]
    /\ UNCHANGED owner
    /\ UNCHANGED notColl

\* parent.collection.insert(i, o)
DoInsert(i, o) ==
    /\ o \in 1..nobjs /\ ~InItems(o)
    /\ i \in 0..Len(items)
    /\ LET r == coll_insert(collection_class(owner), items, recs, i, o) IN
         /\ items' = r.items
         /\ recs' = r.recs
    /\ hist' = HistAfterOther
    /\ last' = [op |-> "insert", obj |-> o, arg |-> None]
    /\ UNCHANGED <<owner, nobjs>>
    /\ UNCHANGED notColl

\* parent.collection.remove(o)
DoRemove(o) ==
    /\ InItems(o)
    /\ LET r == coll_remove(collection_class(owner), items, recs, o) IN
         /\ items' = r.items
         /\ recs' = r.recs
    /\ hist' = HistAfterOther
    /\ last' = [op |-> "remove", obj |-> o, arg |-> None]
    /\ UNCHANGED <<owner, nobjs>>
    /\ UNCHANGED notColl

\* Reordering: a member is moved to another position,
\* parent.collection.insert(j, parent.collection.pop(i)).
DoMove(i, j) ==
    /\ i \in 0..(Len(items) - 1)
    /\ j \in 0..(Len(items) - 1)
    /\ i # j
    /\ LET cls == collection_class(owner)
           p == coll_pop(cls, items, recs, i)
           r == coll_insert(cls, p.items, p.recs, j, items[i + 1]) IN
         /\ items' = r.items
         /\ recs' = r.recs
    /\ hist' = HistAfterOther
    /\ last' = [op |-> "move", obj |-> items[i + 1], arg |-> None]
    /\ UNCHANGED <<owner, nobjs>>
    /\ UNCHANGED notColl

\* parent.collection.reorder(): a method of OrderingList only
DoReorder ==
    /\ collection_class(owner) = "ordering_list"
    /\ items # <<>>
    /\ recs' = reorder(items, recs)
    /\ hist' = HistAfterOther
    /\ last' = [op |-> "reorder", obj |-> 0, arg |-> None]
    /\ UNCHANGED <<owner, items, nobjs>>
    /\ UNCHANGED notColl

CollNext ==
    \/ \E s \in Speakers : Create(s)
    \/ \E o \in Objs : DoAppend(o)
    \/ \E s \in Speakers : SpeakersAppend(s)
    \/ \E i \in 0..MaxObjs, o \in Objs : DoInsert(i, o)
    \/ \E o \in Objs : DoRemove(o)
    \/ \E i \in 0..MaxObjs, j \in 0..MaxObjs : DoMove(i, j)
    \/ DoReorder

\* --------------------------------------------------------------- the store
\* What the database holds. A UNIQUE constraint follows SQL: two rows
\* conflict when every constrained column is non-NULL in both and equal; a
\* NULL equals nothing. A PRIMARY KEY column is NOT NULL.
MaxEvents == 3
MaxLinkRows == 3

Cities == {1, 2}
Dates == {Some("2015-03-29"), Some("2015-03-30")}
Times == {None, Some("18:00"), Some("19:00")}
Urls == {"u1", "u2"}
ParentIds == {1, 2}

\* events: city_id NOT NULL; date and start_time nullable. The rows drawn
\* here all carry a date, and a start_time or none.
EventRows == [city_id : Cities, date : Dates, start_time : Times]

\* Whether two values of a UNIQUE column count as equal
sql_eq(a, b) == a # None /\ b # None /\ a = b

\* The two dicts of the key (city_id, date, start_time) conflict
event_key_conflict(r, q) ==
    /\ r.city_id = q.city_id
    /\ sql_eq(r.date, q.date)
    /\ sql_eq(r.start_time, q.start_time)

\* UniqueConstraint('city_id', 'date', 'start_time'): row r, stored at id
\* `self` (0 for a row not stored yet), conflicts with a stored row.
events_unique_violation(rows, r, self) ==
    \E k \in 1..Len(rows) : k # self /\ event_key_conflict(rows[k], r)

\* A link table keyed by a surrogate id alone: no two rows conflict
link_no_pk_violation(rows, r, self) == FALSE

\* event_links: primary key (event_id, url); talk_links: (talk_id, url).
link_pk_violation(rows, r, self) ==
    \E k \in 1..Len(rows) :
        k # self /\ rows[k].parent_id = r.parent_id /\ rows[k].url = r.url

DbIdle ==
    /\ events = <<>>
    /\ event_links = <<>>
    /\ talk_links = <<>>
    /\ db_last = [op |-> "init", ok |-> TRUE]

\* INSERT INTO events
EventInsert(r) ==
    /\ Len(events) < MaxEvents
    /\ IF events_unique_violation(events, r, 0)
       THEN /\ events' = events
            /\ db_last' = [op |-> "events.insert", ok |-> FALSE]
       ELSE /\ events' = Append(events, r)
            /\ db_last' = [op |-> "events.insert", ok |-> TRUE]
    /\ UNCHANGED notEvents

\* UPDATE events SET ... WHERE id = k
EventUpdate(k, r) ==
    /\ k \in 1..Len(events)
    /\ r # events[k]
    /\ IF events_unique_violation(events, r, k)
       THEN /\ events' = events
            /\ db_last' = [op |-> "events.update", ok |-> FALSE]
       ELSE /\ events' = [events EXCEPT ![k] = r]
            /\ db_last' = [op |-> "events.update", ok |-> TRUE]
    /\ UNCHANGED notEvents

\* INSERT INTO event_links
EventLinkInsert(r) ==
    /\ Len(event_links) < MaxLinkRows
    /\ IF link_pk_violation(event_links, r, 0)
       THEN /\ event_links' = event_links
            /\ db_last' = [op |-> "event_links.insert", ok |-> FALSE]
       ELSE /\ event_links' = Append(event_links, r)
            /\ db_last' = [op |-> "event_links.insert", ok |-> TRUE]
    /\ UNCHANGED talk_links
    /\ UNCHANGED notLinkRows

\* INSERT INTO talk_links
TalkLinkInsert(r) ==
    /\ Len(talk_links) < MaxLinkRows
    /\ IF link_pk_violation(talk_links, r, 0)
       THEN /\ talk_links' = talk_links
            /\ db_last' = [op |-> "talk_links.insert", ok |-> FALSE]
       ELSE /\ talk_links' = Append(talk_links, r)
            /\ db_last' = [op |-> "talk_links.insert", ok |-> TRUE]
    /\ UNCHANGED event_links
    /\ UNCHANGED notLinkRows

LinkRows == [parent_id : ParentIds, url : Urls]

EventsNext ==
    \/ \E r \in EventRows : EventInsert(r)
    \/ \E k \in 1..MaxEvents, r \in EventRows : EventUpdate(k, r)

LinksNext ==
    \/ \E r \in LinkRows : EventLinkInsert(r)
    \/ \E r \in LinkRows : TalkLinkInsert(r)

\* ------------------------------------------------------------------ strings
ascii_lowercase ==
    <<"a", "b", "c", "d", "e", "f", "g", "h", "i", "j", "k", "l", "m",
      "n", "o", "p", "q", "r", "s", "t", "u", "v", "w", "x", "y", "z">>

ascii_uppercase ==
    <<"A", "B", "C", "D", "E", "F", "G", "H", "I", "J", "K", "L", "M",
      "N", "O", "P", "Q", "R", "S", "T", "U", "V", "W", "X", "Y", "Z">>

digits == <<"0", "1", "2", "3", "4", "5", "6", "7", "8", "9">>

Range(f) == {f[i] : i \in DOMAIN f}

\* str(n) of an int, as '{}'.format(n) gives it
RECURSIVE nat_str(_)
nat_str(n) ==
    IF n < 10 THEN <<digits[n + 1]>>
    ELSE nat_str(n \div 10) \o <<digits[(n % 10) + 1]>>

int_str(n) == IF n < 0 THEN <<"-">> \o nat_str(-n) ELSE nat_str(n)

\* sep.join(parts)
RECURSIVE join(_, _)
join(sep, parts) ==
    IF parts = <<>> THEN <<>>
    ELSE IF Len(parts) = 1 THEN parts[1]
    ELSE parts[1] \o sep \o join(sep, Tail(parts))

\* Python's truth value of an optional str: None and '' are false
truthy(t) == t # None /\ t[1] # <<>>

\* ---------------------------------------------------------- the Event object
MaxNumber == 10

Names == {<<>>, <<"P">>, <<"P", "y", "v", "o">>}
Numbers == {None} \cup {Some(n) : n \in (-1)..MaxNumber}
Topics == {None, Some(<<>>), Some(<<"F", "o", "o">>), Some(<<"a", " ", "b">>)}
EventDates ==
    {None,
     Some([year |-> 2015, month |-> 3, day |-> 29]),
     Some([year |-> 2014, month |-> 12, day |-> 31])}
StartTimes ==
    {None} \cup
    {Some([hour |-> h, minute |-> m, second |-> 0, tzinfo |-> None]) :
        h \in {0, 18, 19}, m \in {0, 30}}

\* CET = tz.gettz('Europe/Prague')
CET == "Europe/Prague"

\* The hour of an event with no start time
DefaultHour == 19

\* The test written as a truth value: if self.number
has_number_truthy(e) == e.number # None /\ e.number[1] # 0

\* self.number is not None
has_number(e) == e.number # None

\* Event.title
Event_title(e) ==
    LET parts0 == <<e.name>>
        parts1 == IF has_number(e)
                  THEN Append(parts0, <<"#">> \o int_str(e.number[1]))
                  ELSE IF truthy(e.topic)
                       THEN Append(parts0, <<"U+2013">>)
                       ELSE parts0
        parts2 == IF truthy(e.topic)
                  THEN Append(parts1, e.topic[1])
                  ELSE parts1
    IN  join(<<" ">>, parts2)

\* datetime.time(hour=h, tzinfo=tz): the other fields default to 0
datetime_time(h, tz) ==
    [hour |-> h, minute |-> 0, second |-> 0, tzinfo |-> Some(tz)]

\* time.replace(tzinfo=tz)
time_replace_tzinfo(t, tz) == [t EXCEPT !.tzinfo = Some(tz)]

\* datetime.datetime.combine(date, time); a date of None raises TypeError
datetime_combine(d, t) ==
    IF d = None THEN [raises |-> "TypeError"]
    ELSE [year |-> d[1].year, month |-> d[1].month, day |-> d[1].day,
          hour |-> t.hour, minute |-> t.minute, second |-> t.second,
          tzinfo |-> t.tzinfo]

\* The default written without its hour: datetime.time(tzinfo=CET)
start_time_of_midnight(e) ==
    IF e.start_time = None
    THEN datetime_time(0, CET)
    ELSE time_replace_tzinfo(e.start_time[1], CET)

\* The time Event.start combines with the date
start_time_of(e) ==
    IF e.start_time = None
    THEN datetime_time(DefaultHour, CET)
    ELSE time_replace_tzinfo(e.start_time[1], CET)

\* Event.start
Event_start(e) == datetime_combine(e.date, start_time_of(e))

EventInit ==
    event = [name |-> <<"P">>, number |-> None, topic |-> None,
             date |-> None, start_time |-> None]

\* event.name = n, and so for each column
SetName(n) ==
    /\ n # event.name
    /\ event' = [event EXCEPT !.name = n]
    /\ UNCHANGED notEvent

SetNumber(n) ==
    /\ n # event.number
    /\ event' = [event EXCEPT !.number = n]
    /\ UNCHANGED notEvent

SetTopic(t) ==
    /\ t # event.topic
    /\ event' = [event EXCEPT !.topic = t]
    /\ UNCHANGED notEvent

SetDate(d) ==
    /\ d # event.date
    /\ event' = [event EXCEPT !.date = d]
    /\ UNCHANGED notEvent

SetStartTime(t) ==
    /\ t # event.start_time
    /\ event' = [event EXCEPT !.start_time = t]
    /\ UNCHANGED notEvent

EventNext ==
    \/ \E n \in Names : SetName(n)
    \/ \E n \in Numbers : SetNumber(n)
    \/ \E t \in Topics : SetTopic(t)
    \/ \E d \in EventDates : SetDate(d)
    \/ \E t \in StartTimes : SetStartTime(t)

\* ------------------------------------------------------------- youtube ids
MaxTalkLinks == 3

\* YOUTUBE_PREFIX = 'http://www.youtube.com/watch?v='
YOUTUBE_PREFIX ==
    <<"h", "t", "t", "p", ":", "/", "/", "w", "w", "w", ".", "y", "o", "u",
      "t", "u", "b", "e", ".", "c", "o", "m", "/", "w", "a", "t", "c", "h",
      "?", "v", "=">>

\* The character class [-0-9a-zA-Z_] of YOUTUBE_RE
id_class ==
    Range(digits) \cup Range(ascii_lowercase) \cup Range(ascii_uppercase)
        \cup {"-", "_"}

\* The longest prefix of s made of characters of class cls: what cls+ or
\* cls* consumes, being greedy.
RECURSIVE greedy_run(_, _)
greedy_run(s, cls) ==
    IF s = <<>> \/ Head(s) \notin cls THEN <<>>
    ELSE <<Head(s)>> \o greedy_run(Tail(s), cls)

starts_with(s, p) == Len(s) >= Len(p) /\ SubSeq(s, 1, Len(p)) = p

\* YOUTUBE_RE.search(url): the pattern matched at the first place it fits
RECURSIVE youtube_re_search(_)
youtube_re_search(url) ==
    IF url = <<>> THEN None
    ELSE LET run == greedy_run(SubSeq(url, Len(YOUTUBE_PREFIX) + 1, Len(url)),
                               id_class)
         IN  IF starts_with(url, YOUTUBE_PREFIX) /\ run # <<>> THEN Some(run)
             ELSE youtube_re_search(Tail(url))

\* YOUTUBE_RE.match(url): the escaped prefix, matched at the start of url
\* only, then ([-0-9a-zA-Z_]+); the value is group(1), or None.
youtube_re_match(url) ==
    IF ~starts_with(url, YOUTUBE_PREFIX) THEN None
    ELSE LET run == greedy_run(SubSeq(url, Len(YOUTUBE_PREFIX) + 1, Len(url)),
                               id_class)
         IN  IF run = <<>> THEN None ELSE Some(run)

\* TalkLink.youtube_id
TalkLink_youtube_id(url) == youtube_re_match(url)

\* Talk.youtube_id: the first link whose youtube_id is true
RECURSIVE Talk_youtube_id(_)
Talk_youtube_id(ls) ==
    IF ls = <<>> THEN None
    ELSE LET yid == TalkLink_youtube_id(Head(ls)) IN
         IF truthy(yid) THEN yid ELSE Talk_youtube_id(Tail(ls))

https_prefix == <<"h", "t", "t", "p", "s">> \o SubSeq(YOUTUBE_PREFIX, 5, 31)
youtu_be ==
    <<"h", "t", "t", "p", "s", ":", "/", "/", "y", "o", "u", "t", "u", ".",
      "b", "e", "/">>

\* The urls the links are drawn from
LinkUrls ==
    {YOUTUBE_PREFIX \o <<"a", "B", "-", "_", "1">>,
     YOUTUBE_PREFIX \o <<"x", "y", "&", "t", "=", "1">>,
     YOUTUBE_PREFIX,
     YOUTUBE_PREFIX \o <<"&", "a">>,
     https_prefix \o <<"a", "b", "c">>,
     youtu_be \o <<"a", "b", "c">>,
     <<"x">> \o YOUTUBE_PREFIX \o <<"a", "b", "c">>,
     <<"h", "t", "t", "p", ":", "/", "/", "e", ".", "g", "/">>}

LinksInit == links = <<>>

\* talk.links.append(TalkLink(url=u))
LinkAppend(u) ==
    /\ Len(links) < MaxTalkLinks
    /\ links' = Append(links, u)
    /\ UNCHANGED notLinks

\* talk.links.insert(i, TalkLink(url=u))
LinkInsert(i, u) ==
    /\ Len(links) < MaxTalkLinks
    /\ i \in 0..(Len(links) - 1)
    /\ links' = list_insert(links, i, u)
    /\ UNCHANGED notLinks

\* talk.links.pop(i)
LinkPop(i) ==
    /\ i \in 0..(Len(links) - 1)
    /\ links' = list_pop(links, i)
    /\ UNCHANGED notLinks

YoutubeNext ==
    \/ \E u \in LinkUrls : LinkAppend(u)
    \/ \E i \in 0..MaxTalkLinks, u \in LinkUrls : LinkInsert(i, u)
    \/ \E i \in 0..MaxTalkLinks : LinkPop(i)

\* ------------------------------------------------------------------ slugify
MaxNameLen == 4

\* The characters names are typed from: ASCII letters, a digit, underscore,
\* a hyphen, a space, and the non-ASCII S-caron and sharp s.
NameChars == {"a", "Z", "7", "_", "-", " ", "U+0160", "U+00DF"}

\* unidecode.unidecode of one character: ASCII is kept, and the tables give
\* 'S' for U+0160, 'ss' for U+00DF and '-' for U+2013.
unidecode_char(c) ==
    CASE c = "U+0160" -> <<"S">>
      [] c = "U+00DF" -> <<"s", "s">>
      [] c = "U+2013" -> <<"-">>
      [] OTHER -> <<c>>

RECURSIVE unidecode(_)
unidecode(s) ==
    IF s = <<>> THEN <<>> ELSE unidecode_char(Head(s)) \o unidecode(Tail(s))

\* str.lower on ASCII text
lower_char(c) ==
    IF \E i \in 1..26 : ascii_uppercase[i] = c
    THEN ascii_lowercase[CHOOSE i \in 1..26 : ascii_uppercase[i] = c]
    ELSE c

lower(s) == [i \in 1..Len(s) |-> lower_char(s[i])]

\* The complement of the class [^a-z0-9_]
slug_class == Range(ascii_lowercase) \cup Range(digits) \cup {"_"}

\* What [^a-z0-9_]+ consumes at the start of s
RECURSIVE greedy_run_outside(_, _)
greedy_run_outside(s, cls) ==
    IF s = <<>> \/ Head(s) \in cls THEN <<>>
    ELSE <<Head(s)>> \o greedy_run_outside(Tail(s), cls)

\* re.sub('[^a-z0-9_]', '-', s): every character replaced on its own
re_sub_each(s) ==
    [i \in 1..Len(s) |-> IF s[i] \in slug_class THEN s[i] ELSE "-"]

\* re.sub('[^a-z0-9_]+', '-', s)
RECURSIVE re_sub_runs(_)
re_sub_runs(s) ==
    IF s = <<>> THEN <<>>
    ELSE IF Head(s) \in slug_class THEN <<Head(s)>> \o re_sub_runs(Tail(s))
    ELSE LET run == greedy_run_outside(s, slug_class) IN
         <<"-">> \o re_sub_runs(SubSeq(s, Len(run) + 1, Len(s)))

\* str.strip('-')
RECURSIVE lstrip(_, _)
lstrip(s, c) ==
    IF s # <<>> /\ Head(s) = c THEN lstrip(Tail(s), c) ELSE s

RECURSIVE rstrip(_, _)
rstrip(s, c) ==
    IF s # <<>> /\ s[Len(s)] = c THEN rstrip(SubSeq(s, 1, Len(s) - 1), c)
    ELSE s

strip(s, c) == rstrip(lstrip(s, c), c)

\* slugify(name)
slugify(n) == strip(re_sub_runs(lower(unidecode(n))), "-")

SlugInit == name = <<>> /\ slug = None

\* A caller extends the name it is about to slugify
TypeChar(c) ==
    /\ Len(name) < MaxNameLen
    /\ name' = Append(name, c)
    /\ slug' = None
    /\ UNCHANGED notSlug

\* slug = slugify(name)
Slugify ==
    /\ slug = None
    /\ slug' = Some(slugify(name))
    /\ UNCHANGED name
    /\ UNCHANGED notSlug

SlugNext ==
    \/ \E c \in NameChars : TypeChar(c)
    \/ Slugify

\* ----------------------------------------------------- the specifications
IdleColl ==
    /\ owner = "Event.talks"
    /\ items = <<>>
    /\ recs = [o \in Objs |-> Blank]
    /\ nobjs = 0
    /\ hist = [appendsOnly |-> TRUE, unsetOnly |-> TRUE]
    /\ last = [op |-> "init", obj |-> 0, arg |-> None]

\* The ordered collections and the association proxy
Init == CollInit /\ DbIdle /\ EventInit /\ LinksInit /\ SlugInit

Next == CollNext

Spec == Init /\ [][Next]_vars

\* The other parts start from one idle collection
InitIdle == IdleColl /\ DbIdle /\ EventInit /\ LinksInit /\ SlugInit

\* The events table
SpecEvents == InitIdle /\ [][EventsNext]_vars

\* The event_links and talk_links tables
SpecLinks == InitIdle /\ [][LinksNext]_vars

\* One Event object and its derived title and start
SpecEvent == InitIdle /\ [][EventNext]_vars

\* One Talk's links and its derived youtube_id
SpecYoutube == InitIdle /\ [][YoutubeNext]_vars

\* slugify
SpecSlug == InitIdle /\ [][SlugNext]_vars

\* ------------------------------------------------- claims on the collections
\* The Speaker view of talk.talk_speakers that the association proxy gives.
speakers_proxy(its, rs) == [k \in 1..Len(its) |-> rs[its[k]].speaker]

IndexIsPosition(its, rs) ==
    \A k \in 1..Len(its) : rs[its[k]].index = Some(k - 1)

\* C1: in every reachable state of each of the four ordered collections, the
\* index field of every member equals the member's position in the collection.
C1_IndexEqualsPosition == IndexIsPosition(items, recs)

C3_Step ==
    last'.op = "speakers.append" =>
        /\ nobjs' = nobjs + 1
        /\ last'.obj = nobjs'
        /\ items' = Append(items, nobjs')
        /\ recs'[nobjs'].speaker = last'.arg
        /\ \A o \in 1..nobjs : recs'[o] = recs[o]
        /\ LET sp == speakers_proxy(items', recs') IN
             /\ sp[Len(sp)] = last'.arg
             /\ SubSeq(sp, 1, Len(sp) - 1) = speakers_proxy(items, recs)

\* C3: talk.speakers.append(s) creates exactly one TalkSpeaker; it is the new
\* last member of talk.talk_speakers and has speaker s; every association that
\* existed before keeps its fields and its place; s is the last of
\* talk.speakers afterwards.
C3_SpeakersAppendCreatesOneAssociation == [][C3_Step]_vars

C3_Witness ==
    /\ last.op = "speakers.append"
    /\ Len(items) >= 2
    /\ \E k \in 1..(Len(items) - 1) : recs[items[k]].speaker = last.arg

AppendCollections == {"Talk.links", "Event.talks"}

C4_Step ==
    (owner \in AppendCollections /\ last'.op = "append") =>
        /\ items' = Append(items, last'.obj)
        /\ recs[last'.obj].index = None
             => recs'[last'.obj].index = Some(Len(items))
        /\ \A o \in Objs \ {last'.obj} : recs'[o] = recs[o]

C5_Step ==
    last'.op \in {"remove", "move", "reorder"} =>
        /\ IndexIsPosition(items', recs')
        /\ last'.op = "remove" =>
             \A k \in 1..Len(items) :
                 k < PosOf(items, last'.obj)
                     => recs'[items[k]].index = recs[items[k]].index

\* C5: a reordering (a move, reorder()) or a removal (remove) leaves the
\* remaining members' indices equal to their new positions, and the members
\* placed before a removed member keep their index.
C5_RemoveReorderRenumbers == [][C5_Step]_vars

\* ------------------------------------------------------ claims on the store
\* C2: no two stored Events have the same city, date and start_time, a
\* start_time that is absent included.
C2_EventTriplesDiffer ==
    \A i, j \in 1..Len(events) :
        i # j => <<events[i].city_id, events[i].date, events[i].start_time>>
                  # <<events[j].city_id, events[j].date, events[j].start_time>>

NoTwoRowsWithSameKey(rows) ==
    \A i, j \in 1..Len(rows) :
        i # j => ~(rows[i].parent_id = rows[j].parent_id
                   /\ rows[i].url = rows[j].url)

SameUrlUnderTwoParents(rows) ==
    \E i, j \in 1..Len(rows) :
        rows[i].url = rows[j].url /\ rows[i].parent_id # rows[j].parent_id

\* C6: no Event holds two EventLinks with the same url and no Talk holds two
\* TalkLinks with the same url.
C6_LinkIdentity ==
    NoTwoRowsWithSameKey(event_links) /\ NoTwoRowsWithSameKey(talk_links)

\* The same url is stored under two parents in each table, and an insertion
\* of a duplicate was refused.
C6_Witness ==
    /\ SameUrlUnderTwoParents(event_links)
    /\ SameUrlUnderTwoParents(talk_links)
    /\ db_last.ok = FALSE

\* ------------------------------------------------- claims on the Event object
TopicPresent == event.topic # None /\ Len(event.topic[1]) > 0

\* The integer a decimal numeral denotes
RECURSIVE numeral_value(_)
numeral_value(d) ==
    IF d = <<>> THEN 0
    ELSE IF Head(d) = "-" THEN 0 - numeral_value(Tail(d))
    ELSE 10 * numeral_value(SubSeq(d, 1, Len(d) - 1))
         + (CHOOSE k \in 0..9 : digits[k + 1] = d[Len(d)])

Numeral == IF event.number = None THEN <<>> ELSE int_str(event.number[1])

\* C7: the title is "{name} #n" with a number and no topic, "{name} - {topic}"
\* (an en dash) with a topic and no number, the name with neither, and
\* "{name} #n {topic}" with both; the en dash appears only with no number and
\* a non-empty topic; the number 0 is a number.
C7_Title ==
    LET t == Event_title(event)
        n == event.name
    IN  /\ event.number # None => numeral_value(Numeral) = event.number[1]
        /\ (event.number # None /\ ~TopicPresent)
               => t = n \o <<" ", "#">> \o Numeral
        /\ (event.number = None /\ TopicPresent)
               => t = n \o <<" ", "U+2013", " ">> \o event.topic[1]
        /\ (event.number = None /\ ~TopicPresent) => t = n
        /\ (event.number # None /\ TopicPresent)
               => t = n \o <<" ", "#">> \o Numeral \o <<" ">> \o event.topic[1]
        /\ ("U+2013" \in Range(t)) <=> (event.number = None /\ TopicPresent)

C7_Witness ==
    /\ event.number = Some(0)
    /\ event.topic = Some(<<"F", "o", "o">>)
    /\ Event_title(event) = event.name \o <<" ", "#", "0", " ", "F", "o", "o">>

\* C10: for an Event with a date, start has the date's year, month and day and
\* the zone Europe/Prague; its hour and minute are 19 and 0 when start_time is
\* absent and those of start_time otherwise.
C10_Start ==
    event.date # None =>
        LET s == Event_start(event) IN
        /\ <<s.year, s.month, s.day>>
             = <<event.date[1].year, event.date[1].month, event.date[1].day>>
        /\ s.tzinfo = Some("Europe/Prague")
        /\ event.start_time = None => (s.hour = 19 /\ s.minute = 0)
        /\ event.start_time # None =>
             /\ s.hour = event.start_time[1].hour
             /\ s.minute = event.start_time[1].minute

C10_Witness ==
    /\ event.date # None
    /\ event.start_time = None
    /\ Event_start(event).hour = 19

\* -------------------------------------------------- claims on youtube ids
\* url begins with the prefix, followed by at least one id character
IsWatchUrl(u) ==
    /\ Len(u) > Len(YOUTUBE_PREFIX)
    /\ \A i \in 1..Len(YOUTUBE_PREFIX) : u[i] = YOUTUBE_PREFIX[i]
    /\ u[Len(YOUTUBE_PREFIX) + 1] \in id_class

\* The maximal run of id characters right after the prefix
VideoId(u) ==
    LET n == Len(YOUTUBE_PREFIX)
        e == CHOOSE e \in (n + 1)..Len(u) :
                 /\ \A i \in (n + 1)..e : u[i] \in id_class
                 /\ e = Len(u) \/ u[e + 1] \notin id_class
    IN  SubSeq(u, n + 1, e)

Unrecognized ==
    {https_prefix \o <<"a", "b", "c">>,
     youtu_be \o <<"a", "b", "c">>,
     <<"x">> \o YOUTUBE_PREFIX \o <<"a", "b", "c">>}

\* C8: Talk.youtube_id is the video id of the first link, in the order of the
\* links, that begins with the prefix followed by an id character; the id is
\* the maximal run of id characters after the prefix; it is None when no link
\* matches, as for https and youtu.be urls and a prefix not at the start.
C8_YoutubeId ==
    LET r == Talk_youtube_id(links)
        M == {k \in 1..Len(links) : IsWatchUrl(links[k])}
    IN  /\ M = {} => r = None
        /\ M # {} =>
             r = Some(VideoId(links[CHOOSE k \in M : \A j \in M : k <= j]))
        /\ (\A k \in 1..Len(links) : links[k] \in Unrecognized) => r = None

C8_Witness ==
    /\ Len(links) = 3
    /\ links[1] \in Unrecognized
    /\ IsWatchUrl(links[2]) /\ IsWatchUrl(links[3])
    /\ VideoId(links[2]) = <<"x", "y">>
    /\ VideoId(links[3]) # VideoId(links[2])
    /\ Talk_youtube_id(links) = Some(<<"x", "y">>)

\* ------------------------------------------------------- claims on slugify
SlugAlphabet == Range(ascii_lowercase) \cup Range(digits) \cup {"_"}

\* s without its leading characters of SlugAlphabet
RECURSIVE AfterWord(_)
AfterWord(s) ==
    IF s # <<>> /\ Head(s) \in SlugAlphabet THEN AfterWord(Tail(s)) ELSE s

\* s matches (-[a-z0-9_]+)*$
RECURSIVE MatchesGroups(_)
MatchesGroups(s) ==
    \/ s = <<>>
    \/ /\ Len(s) >= 2
       /\ s[1] = "-"
       /\ s[2] \in SlugAlphabet
       /\ MatchesGroups(AfterWord(Tail(s)))

\* s matches ^[a-z0-9_]*(-[a-z0-9_]+)*$
MatchesSlugPattern(s) == MatchesGroups(AfterWord(s))

\* The maximal runs of SlugAlphabet characters of s, in order
RECURSIVE SlugWords(_)
SlugWords(s) ==
    IF s = <<>> THEN <<>>
    ELSE IF Head(s) \notin SlugAlphabet THEN SlugWords(Tail(s))
    ELSE LET w == SubSeq(s, 1, Len(s) - Len(AfterWord(s))) IN
         <<w>> \o SlugWords(AfterWord(s))

\* C9: the output of slugify uses only a-z, 0-9, _ and -, matches
\* ^[a-z0-9_]*(-[a-z0-9_]+)*$, neither starts nor ends with a hyphen, has no
\* two adjacent hyphens, and is the runs of [a-z0-9_] of the lowercased
\* transliteration joined by single hyphens.
C9_Slug ==
    slug # None =>
        LET out == slug[1] IN
        /\ \A i \in 1..Len(out) : out[i] \in SlugAlphabet \cup {"-"}
        /\ MatchesSlugPattern(out)
        /\ out # <<>> => (out[1] # "-" /\ out[Len(out)] # "-")
        /\ \A i \in 1..(Len(out) - 1) : ~(out[i] = "-" /\ out[i + 1] = "-")
        /\ out = join(<<"-">>, SlugWords(lower(unidecode(name))))

C9_Witness ==
    /\ name = <<"U+0160", " ", "-", "Z">>
    /\ slug = Some(<<"s", "-", "z">>)

====
